---- MODULE Spec2Model ----
(***************************************************************************)
(* Allocation of students (items) to classrooms (bins): the two programs   *)
(* of the repository.                                                      *)
(*                                                                         *)
(*   policy = "direct"  problema_demanda_reprimida.py: main() runs         *)
(*                      solve_demanda_reprimida over every file of the     *)
(*                      instance directory; an item's reference is the     *)
(*                      1-based index of its room.                         *)
(*   policy = "mapped"  multiple_knapsacks_problem.py: main() runs one     *)
(*                      instance; room k gets the k-th smallest distinct   *)
(*                      reference of the items.                            *)
(*                                                                         *)
(* A file is a record [exists, txt, lines]; a line is the sequence of its  *)
(* integer tokens (the empty sequence is a blank line).  The optimizer     *)
(* (OR-Tools) is external: it answers with any optimal assignment of the   *)
(* model the program built, or with a non-optimal status.                  *)
(***************************************************************************)
EXTENDS Integers, Sequences, FiniteSets

VARIABLES
    policy,           \* which program runs
    batch,            \* the instance files main() iterates over
    idx,              \* position of main()'s loop in batch (1-based)
    pc,               \* position of the running program
    inst,             \* what the loader returned for the current file
    referencia_sala,  \* data["referencia_sala"]: per room, {} (None) or {ref}
    warned,           \* the AVISO lines were printed
    status,           \* what solver.Solve() returned
    x,                \* the pairs <<i, b>> with x[i, b] = 1 in the solution
    objective,        \* objective.Value()
    report,           \* the report rendered for the current file
    saida,            \* per file of the batch: the report written for it
    log               \* per file of the batch: what was printed about it

vars == <<policy, batch, idx, pc, inst, referencia_sala, warned, status, x,
          objective, report, saida, log>>

\* ------------------------------------------------------------------ bounds

MaxBins == 2

MaxItems == 2

MaxLines == 4

MaxFiles == 2

\* ----------------------------------------------------------------- helpers

Min(a, b) == IF a < b THEN a ELSE b

Max(a, b) == IF a > b THEN a ELSE b

\* Python's range(n) and range(a, b)
Range(n) == 0 .. (n - 1)

Range2(a, b) == a .. (b - 1)

RECURSIVE SumOver(_, _)
\* sum(f[e] for e in S), f a 0-indexed Python list held as a 1-indexed sequence
SumOver(S, f) ==
    IF S = {} THEN 0
    ELSE LET e == CHOOSE e \in S : TRUE IN f[e + 1] + SumOver(S \ {e}, f)

RECURSIVE SortedSeq(_)
\* sorted(list(S))
SortedSeq(S) ==
    IF S = {} THEN <<>>
    ELSE LET m == CHOOSE m \in S : \A o \in S : m <= o
         IN <<m>> \o SortedSeq(S \ {m})

\* seq[i] for a Python list: negative indices count from the end
PyHas(seq, i) == (-Len(seq) <= i) /\ (i < Len(seq))

PyAt(seq, i) == IF i >= 0 THEN seq[i + 1] ELSE seq[Len(seq) + i + 1]

\* seq[a:b] for a Python list, a >= 0
PySlice(seq, a, b) ==
    LET lo == Min(a, Len(seq))
        hi == IF b < 0 THEN Max(Len(seq) + b, 0) ELSE Min(b, Len(seq))
    IN  IF hi <= lo THEN <<>> ELSE SubSeq(seq, lo + 1, hi)

\* [linha.strip() for linha in linhas if linha.strip()]
NonBlank(lines) == SelectSeq(lines, LAMBDA l : Len(l) > 0)

\* int(linha) succeeds on a line of one integer token
IsInt(line) == Len(line) = 1

\* peso, valor, referencia = map(int, linha.split()) succeeds on three tokens
IsItem(line) == Len(line) = 3

\* ------------------------------------------------------------------ loader

NoInstance ==
    [ok |-> FALSE, err |-> "none", num_alunos |-> 0, num_salas |-> 0,
     capacidades |-> <<>>, referencias |-> <<>>, pesos |-> <<>>, valores |-> <<>>]

Raise(e) == [NoInstance EXCEPT !.err = e]

\* the item loop of both loaders, lines 45-49 / 40-44: the first index that
\* fails decides the exception
ReadItems(linhas, num_salas, num_alunos, caps) ==
    LET is == Range2(num_salas + 2, num_salas + 2 + num_alunos)
        bad == {i \in is : ~PyHas(linhas, i) \/ ~IsItem(PyAt(linhas, i))}
    IN  IF bad # {}
        THEN LET i == CHOOSE i \in bad : \A j \in bad : i <= j
             IN  IF ~PyHas(linhas, i) THEN Raise("IndexError") ELSE Raise("ValueError")
        ELSE LET n == Max(num_alunos, 0)
                 item(k) == PyAt(linhas, num_salas + 2 + k - 1)
             IN  [ok |-> TRUE, err |-> "none",
                  num_alunos |-> num_alunos, num_salas |-> num_salas,
                  capacidades |-> caps,
                  pesos |-> [k \in 1 .. n |-> item(k)[1]],
                  valores |-> [k \in 1 .. n |-> item(k)[2]],
                  referencias |-> [k \in 1 .. n |-> item(k)[3]]]

\* what follows the capacities in both loaders: the item count and the items
ReadCount(linhas, num_salas, caps) ==
    IF ~PyHas(linhas, num_salas + 1) THEN Raise("IndexError")
    ELSE IF ~IsInt(PyAt(linhas, num_salas + 1)) THEN Raise("ValueError")
    ELSE ReadItems(linhas, num_salas, PyAt(linhas, num_salas + 1)[1], caps)

\* problema_demanda_reprimida.carregar_instancia: the capacities are a slice
carregar_instancia(file) ==
    IF ~file.exists THEN Raise("FileNotFoundError")
    ELSE LET linhas == NonBlank(file.lines) IN
    IF ~PyHas(linhas, 0) THEN Raise("IndexError")
    ELSE IF ~IsInt(linhas[1]) THEN Raise("ValueError")
    ELSE LET num_salas == linhas[1][1]
             capLines == PySlice(linhas, 1, num_salas + 1)
         IN  IF \E k \in 1 .. Len(capLines) : ~IsInt(capLines[k])
             THEN Raise("ValueError")
             ELSE ReadCount(linhas, num_salas,
                            [k \in 1 .. Len(capLines) |-> capLines[k][1]])

\* multiple_knapsacks_problem.carregar_instancia_mkp: the capacities are
\* read by index, for i in range(1, num_salas + 1)
carregar_instancia_mkp(file) ==
    IF ~file.exists THEN Raise("FileNotFoundError")
    ELSE LET linhas == NonBlank(file.lines) IN
    IF ~PyHas(linhas, 0) THEN Raise("IndexError")
    ELSE IF ~IsInt(linhas[1]) THEN Raise("ValueError")
    ELSE LET num_salas == linhas[1][1]
             is == Range2(1, num_salas + 1)
             bad == {i \in is : ~PyHas(linhas, i) \/ ~IsInt(PyAt(linhas, i))}
         IN  IF bad # {}
             THEN LET i == CHOOSE i \in bad : \A j \in bad : i <= j
                  IN  IF ~PyHas(linhas, i) THEN Raise("IndexError")
                      ELSE Raise("ValueError")
             ELSE ReadCount(linhas, num_salas,
                            [k \in 1 .. Max(num_salas, 0) |-> PyAt(linhas, k)[1]])

Load(p, file) ==
    IF p = "direct" THEN carregar_instancia(file) ELSE carregar_instancia_mkp(file)

\* ----------------------------------------------------------- model builder

Items(I) == Range(I.num_alunos)

Bins(I) == Range(I.num_salas)

\* referencias_unicas = sorted(list(set(data["referencia_aluno"])))
referencias_unicas(I) ==
    SortedSeq({I.referencias[k] : k \in 1 .. Len(I.referencias)})

\* num_mapeamentos_possiveis = min(len(referencias_unicas), data["num_bins"])
num_mapeamentos_possiveis(I) == Min(Len(referencias_unicas(I)), I.num_salas)

\* mutant: the rooms get the references in file order, neither sorted nor
\* deduplicated
MapearSemOrdenar(I) ==
    [b \in 1 .. Max(I.num_salas, 0) |->
        IF b <= Min(Len(I.referencias), I.num_salas) THEN {I.referencias[b]} ELSE {}]

\* data["referencia_sala"]: [None] * num_bins, then the first
\* num_mapeamentos_possiveis rooms get the sorted distinct references in order
MapearReferencias(I) ==
    [b \in 1 .. Max(I.num_salas, 0) |->
        IF b <= num_mapeamentos_possiveis(I) THEN {referencias_unicas(I)[b]} ELSE {}]

\* if len(referencias_unicas) != data["num_bins"]: print AVISO
Aviso(I) == Len(referencias_unicas(I)) # I.num_salas

\* mutant: the reference is taken as a 0-based room index
ZeroDirectZeroBased(aluno_ref_destino, b) == b # aluno_ref_destino

\* direct addressing: solver.Add(x[i, b] == 0) when b != aluno_ref_destino - 1
ZeroDirect(aluno_ref_destino, b) == b # (aluno_ref_destino - 1)

\* mapped: solver.Add(x[i, b] == 0) when sala_ref is None or differs
ZeroMapped(sala_ref, aluno_ref) ==
    IF sala_ref = {} THEN TRUE ELSE sala_ref # {aluno_ref}

\* the compatibility constraints of the program that runs
Zero(p, I, rs, i, b) ==
    IF p = "direct" THEN ZeroDirect(I.referencias[i + 1], b)
    ELSE ZeroMapped(rs[b + 1], I.referencias[i + 1])

\* solver.Add(sum(x[i, b] for b in all_salas) <= 1) for every item
AlocacaoUnica(I, sol) ==
    \A i \in Items(I) : Cardinality({b \in Bins(I) : <<i, b>> \in sol}) <= 1

\* mutant: the capacity constraint sums the values instead of the weights
CapacidadeValores(I, sol) ==
    \A b \in Bins(I) :
        SumOver({i \in Items(I) : <<i, b>> \in sol}, I.valores) <= I.capacidades[b + 1]

\* mutant: the capacity constraint is strict
CapacidadeEstrita(I, sol) ==
    \A b \in Bins(I) :
        SumOver({i \in Items(I) : <<i, b>> \in sol}, I.pesos) < I.capacidades[b + 1]

\* solver.Add(sum(x[i, b] * pesos[i] for i in all_alunos) <= capacidades[b])
Capacidade(I, sol) ==
    \A b \in Bins(I) :
        SumOver({i \in Items(I) : <<i, b>> \in sol}, I.pesos) <= I.capacidades[b + 1]

\* the assignments of the boolean variables that satisfy every constraint
Feasible(p, I, rs) ==
    {sol \in SUBSET {v \in Items(I) \X Bins(I) : ~Zero(p, I, rs, v[1], v[2])} :
        AlocacaoUnica(I, sol) /\ Capacidade(I, sol)}

RECURSIVE SumPairs(_, _)
SumPairs(sol, f) ==
    IF sol = {} THEN 0
    ELSE LET v == CHOOSE v \in sol : TRUE IN f[v[1] + 1] + SumPairs(sol \ {v}, f)

\* mutant: the objective's coefficients are the weights
ObjectiveWeights(I, sol) == SumPairs(sol, I.pesos)

\* objective.SetCoefficient(x[i, b], valores[i]) for every pair: the value of
\* the objective at an assignment
ObjectiveValue(I, sol) == SumPairs(sol, I.valores)

\* objective.SetMaximization(): the optimal assignments
Optimal(p, I, rs) ==
    {sol \in Feasible(p, I, rs) :
        \A o \in Feasible(p, I, rs) : ObjectiveValue(I, o) <= ObjectiveValue(I, sol)}

\* ---------------------------------------------------------------- reporter

NoReport ==
    [written |-> FALSE, header |-> <<>>, mensagem |-> "", valor_total |-> 0,
     salas |-> <<>>, resumo |-> <<>>]

\* mutant: the listing ignores the room index
AlunosNaSalaAnyRoom(I, sol, b) == {i \in Items(I) : \E c \in Bins(I) : <<i, c>> \in sol}

\* the items listed under room b: x[i, b].solution_value() above the threshold
AlunosNaSala(I, sol, b) == {i \in Items(I) : <<i, b>> \in sol}

\* one room's block: capacity, reference, the items, the two subtotals
\* (alunos_na_sala / bin_weight adds the weights, valor_na_sala / bin_value the values)
BlocoSala(p, I, rs, sol, b) ==
    [capacidade |-> I.capacidades[b + 1],
     referencia |-> IF p = "direct" THEN {} ELSE rs[b + 1],
     alunos |-> AlunosNaSala(I, sol, b),
     alunos_na_sala |-> SumOver(AlunosNaSala(I, sol, b), I.pesos),
     valor_na_sala |-> SumOver(AlunosNaSala(I, sol, b), I.valores)]

RECURSIVE SumBlocos(_)
SumBlocos(blocos) ==
    IF blocos = <<>> THEN 0
    ELSE Head(blocos).alunos_na_sala + SumBlocos(Tail(blocos))

\* total_alunos_alocados / total_weight: the sum of the rooms' first subtotal
TotalAlocados(p, I, rs, sol) ==
    SumBlocos([b \in 1 .. Max(I.num_salas, 0) |-> BlocoSala(p, I, rs, sol, b - 1)])

\* "Resumo Final" of problema_demanda_reprimida (allocated, not allocated);
\* multiple_knapsacks_problem prints the allocated total only
Resumo(p, I, rs, sol) ==
    IF p = "direct"
    THEN <<TotalAlocados(p, I, rs, sol), I.num_alunos - TotalAlocados(p, I, rs, sol)>>
    ELSE <<TotalAlocados(p, I, rs, sol)>>

\* the header problema_demanda_reprimida writes before the result
Header(p, I) == IF p = "direct" THEN <<I.num_alunos, I.num_salas>> ELSE <<>>

\* mutant: the allocation is rendered whatever the status
RenderSempre(p, I, rs, st, sol, obj) ==
    [written |-> TRUE, header |-> Header(p, I),
     mensagem |-> "Solucao otima encontrada",
     valor_total |-> obj,
     salas |-> [b \in 1 .. Max(I.num_salas, 0) |-> BlocoSala(p, I, rs, sol, b - 1)],
     resumo |-> Resumo(p, I, rs, sol)]

\* the report for a solver status: the allocation when OPTIMAL, one fixed
\* sentence otherwise
Render(p, I, rs, st, sol, obj) ==
    IF st = "OPTIMAL"
    THEN [written |-> TRUE, header |-> Header(p, I),
          mensagem |-> "Solucao otima encontrada",
          valor_total |-> obj,
          salas |-> [b \in 1 .. Max(I.num_salas, 0) |-> BlocoSala(p, I, rs, sol, b - 1)],
          resumo |-> Resumo(p, I, rs, sol)]
    ELSE [written |-> TRUE, header |-> Header(p, I),
          mensagem |-> "O problema nao tem uma solucao otima.",
          valor_total |-> 0, salas |-> <<>>, resumo |-> <<>>]

\* -------------------------------------------------------------- exceptions

\* mutant: the handler re-raises whatever it caught
ExceptRaise(p, err) == "crashed"

\* where the program goes when the pipeline raises: solve_demanda_reprimida
\* catches everything and returns; multiple_knapsacks_problem.main re-raises
\* everything but FileNotFoundError
Except(p, err) ==
    IF p = "direct" THEN "return"
    ELSE IF err = "FileNotFoundError" THEN "done" ELSE "crashed"

\* what the handler prints
ExceptMsg(p, err) ==
    IF err = "FileNotFoundError" THEN "nao encontrado"
    ELSE IF p = "direct" THEN "erro ao resolver" ELSE "traceback"

\* ------------------------------------------------------------------ inputs

SeqsUpTo(S, n) == UNION {[1 .. k -> S] : k \in 0 .. n}

TxtFile(lines) == [exists |-> TRUE, txt |-> TRUE, lines |-> lines]

\* a listed name that cannot be opened
Missing == [exists |-> FALSE, txt |-> TRUE, lines |-> <<>>]

\* a directory entry whose name does not end in ".txt"
NotTxt == [exists |-> TRUE, txt |-> FALSE, lines |-> <<>>]

\* the instance format: room count, capacities, item count, items
MakeFile(caps, items) ==
    <<<<Len(caps)>>>> \o [k \in 1 .. Len(caps) |-> <<caps[k]>>]
        \o <<<<Len(items)>>>> \o items

\* sample capacities (one negative: the file format does not exclude it),
\* weights and values; references from 0 (no room) to the largest room count
CapValues == {-1, 1, 2}

Weights == {1, 2}

Values == {1, 2}

ItemLines == {<<w, v, r>> : w \in Weights, v \in Values, r \in 0 .. MaxBins}

WellFormed ==
    {TxtFile(MakeFile(c, it)) :
        c \in SeqsUpTo(CapValues, MaxBins), it \in SeqsUpTo(ItemLines, MaxItems)}

\* lines of any shape: blank, one integer, an item, a short item
RawLines == {<<>>, <<1, 1, 1>>, <<1, 1>>} \cup {<<n>> : n \in -2 .. 2}

RawFiles == {TxtFile(l) : l \in SeqsUpTo(RawLines, MaxLines)}

\* Scenario A of the specification
ScenarioA ==
    TxtFile(<<<<2>>, <<10>>, <<5>>, <<3>>, <<4, 10, 1>>, <<6, 8, 1>>, <<5, 6, 2>>>>)

\* a one-room, one-item instance and what is left of it with one line
\* dropped, one blank line added or its item line cut short
BaseLines == MakeFile(<<2>>, <<<<1, 1, 1>>>>)

DropLine(l, k) == SubSeq(l, 1, k - 1) \o SubSeq(l, k + 1, Len(l))

BatchFiles ==
    {Missing, NotTxt, TxtFile(BaseLines), TxtFile(<<<<>>>> \o BaseLines),
     TxtFile(SubSeq(BaseLines, 1, 3) \o <<<<1, 1>>>>),
     TxtFile(MakeFile(<<-1>>, <<>>))}
        \cup {TxtFile(DropLine(BaseLines, k)) : k \in 1 .. Len(BaseLines)}

\* ------------------------------------------------------------------- state

Locals ==
    /\ inst = NoInstance
    /\ referencia_sala = <<>>
    /\ warned = FALSE
    /\ status = "NOT_SOLVED"
    /\ x = {}
    /\ objective = 0
    /\ report = NoReport

\* a call of the pipeline starts with fresh locals
ResetLocals ==
    /\ inst' = NoInstance
    /\ referencia_sala' = <<>>
    /\ warned' = FALSE
    /\ status' = "NOT_SOLVED"
    /\ x' = {}
    /\ objective' = 0
    /\ report' = NoReport

Start(p, files) ==
    /\ policy = p
    /\ batch = files
    /\ idx = 1
    /\ pc = IF p = "direct" THEN "main" ELSE "load"
    /\ Locals
    /\ saida = [k \in 1 .. Len(files) |-> NoReport]
    /\ log = [k \in 1 .. Len(files) |-> <<>>]

\* one instance file, of any content
Init ==
    \E p \in {"direct", "mapped"} :
        \E f \in WellFormed \cup RawFiles \cup {ScenarioA, Missing, NotTxt} :
            /\ p = "mapped" => f.txt
            /\ Start(p, <<f>>)

\* a directory of instance files for problema_demanda_reprimida.main; the one
\* instance of multiple_knapsacks_problem.main
InitBatch ==
    \/ \E files \in SeqsUpTo(BatchFiles, MaxFiles) : Start("direct", files)
    \/ \E f \in BatchFiles \ {NotTxt} : Start("mapped", <<f>>)

\* ----------------------------------------------------------------- actions

\* problema_demanda_reprimida.main: for file in os.listdir(...), .txt only
MainLoop ==
    /\ pc = "main"
    /\ IF idx > Len(batch)
       THEN /\ pc' = "done"
            /\ UNCHANGED <<idx, inst, referencia_sala, warned, status, x, objective,
                           report, log>>
       ELSE IF ~batch[idx].txt
       THEN /\ idx' = idx + 1
            /\ UNCHANGED <<pc, inst, referencia_sala, warned, status, x, objective,
                           report, log>>
       ELSE /\ pc' = "load"
            /\ ResetLocals
            /\ log' = [log EXCEPT ![idx] = Append(@, "resolvendo")]
            /\ UNCHANGED idx
    /\ UNCHANGED <<policy, batch, saida>>

\* carregar_instancia / carregar_instancia_mkp inside the try block
Carregar ==
    /\ pc = "load"
    /\ inst' = Load(policy, batch[idx])
    /\ IF inst'.ok
       THEN /\ pc' = IF policy = "mapped" THEN "map" ELSE "create"
            /\ UNCHANGED log
       ELSE /\ pc' = Except(policy, inst'.err)
            /\ log' = [log EXCEPT ![idx] = Append(@, ExceptMsg(policy, inst'.err))]
    /\ UNCHANGED <<policy, batch, idx, referencia_sala, warned, status, x, objective,
                   report, saida>>

\* multiple_knapsacks_problem.main, lines 80-94: map references to rooms, warn
Mapear ==
    /\ pc = "map"
    /\ referencia_sala' = MapearReferencias(inst)
    /\ warned' = Aviso(inst)
    /\ pc' = "create"
    /\ UNCHANGED <<policy, batch, idx, inst, status, x, objective, report, saida, log>>

\* pywraplp.Solver.CreateSolver: a solver, or None and the program returns
CriarSolver ==
    /\ pc = "create"
    /\ \/ /\ pc' = "solve"
          /\ UNCHANGED log
       \/ /\ pc' = IF policy = "direct" THEN "return" ELSE "done"
          /\ log' = [log EXCEPT ![idx] = Append(@, "sem solver")]
    /\ UNCHANGED <<policy, batch, idx, inst, referencia_sala, warned, status, x,
                   objective, report, saida>>

\* variables, constraints, objective, solver.Solve()
Resolver ==
    /\ pc = "solve"
    /\ \/ /\ Feasible(policy, inst, referencia_sala) = {}
          /\ status' = "INFEASIBLE"
          /\ x' = {}
          /\ objective' = 0
       \/ \E sol \in Optimal(policy, inst, referencia_sala) :
              /\ status' = "OPTIMAL"
              /\ x' = sol
              /\ objective' = ObjectiveValue(inst, sol)
       \/ /\ status' = "ABNORMAL"
          /\ x' = {}
          /\ objective' = 0
    /\ pc' = "report"
    /\ UNCHANGED <<policy, batch, idx, inst, referencia_sala, warned, report, saida, log>>

\* the report: written to resultados_instancias/ or printed
Relatorio ==
    /\ pc = "report"
    /\ report' = Render(policy, inst, referencia_sala, status, x, objective)
    /\ saida' = [saida EXCEPT ![idx] = report']
    /\ pc' = IF policy = "direct" THEN "return" ELSE "done"
    /\ UNCHANGED <<policy, batch, idx, inst, referencia_sala, warned, status, x,
                   objective, log>>

\* problema_demanda_reprimida.main after the call: "finalizada", next file
Finalizar ==
    /\ pc = "return"
    /\ log' = [log EXCEPT ![idx] = Append(@, "finalizada")]
    /\ idx' = idx + 1
    /\ pc' = "main"
    /\ UNCHANGED <<policy, batch, inst, referencia_sala, warned, status, x, objective,
                   report, saida>>

Next ==
    \/ MainLoop
    \/ Carregar
    \/ Mapear
    \/ CriarSolver
    \/ Resolver
    \/ Relatorio
    \/ Finalizar

Spec == Init /\ [][Next]_vars

\* the programs run to their end: a for loop over a finite listing, and a
\* solver call that returns
BatchSpec == InitBatch /\ [][Next]_vars /\ WF_vars(Next)

\* ------------------------------------------------------------------ claims

\* an Assignment was reported: the solver answered OPTIMAL and the report of
\* this run is rendered
Reported == report.written /\ status = "OPTIMAL"

\* the items the report lists under room b (0-based)
Listed(b) == report.salas[b + 1].alunos

\* the items the report lists under some room
Assigned == UNION {Listed(b) : b \in Bins(inst)}

\* the room an item's reference addresses under the running policy, if any
Resolves(i, b) ==
    IF policy = "direct" THEN inst.referencias[i + 1] = b + 1
    ELSE referencia_sala[b + 1] = {inst.referencias[i + 1]}

\* C1: in every reported Assignment, under either policy, the weights of the
\* items listed under a room add up to at most the room's capacity.
C1_Capacity ==
    Reported =>
        \A b \in Bins(inst) : SumOver(Listed(b), inst.pesos) <= inst.capacidades[b + 1]

\* C1 witness: a reported Assignment with a full room and an item of that
\* room's reference left out for lack of space.
C1_Witness ==
    /\ Reported
    /\ \E b \in Bins(inst) :
          /\ Listed(b) # {}
          /\ SumOver(Listed(b), inst.pesos) = inst.capacidades[b + 1]
          /\ \E i \in Items(inst) \ Assigned : Resolves(i, b)

\* C2: every item of a reported Assignment is listed under the room its
\* reference resolves to; an item whose reference addresses no room (direct:
\* not in 1..num_bins; mapped: mapped to no room) is listed nowhere, and the
\* run of such an instance does not end in an error.
C2_Compatibility ==
    /\ Reported =>
          /\ \A b \in Bins(inst) : \A i \in Listed(b) : Resolves(i, b)
          /\ \A i \in Items(inst) :
                (\A b \in Bins(inst) : ~Resolves(i, b)) => i \notin Assigned
    /\ inst.ok => pc # "crashed"

\* C2 witness: a reported Assignment that lists an item while another item's
\* reference addresses no room.
C2_Witness ==
    /\ Reported
    /\ Assigned # {}
    /\ \E i \in Items(inst) : \A b \in Bins(inst) : ~Resolves(i, b)

\* C3: in every reported Assignment an item is listed under at most one room.
C3_SingleAssignment ==
    Reported =>
        \A i \in Items(inst) : Cardinality({b \in Bins(inst) : i \in Listed(b)}) <= 1

\* C3 witness: a reported Assignment over two rooms with one item listed and
\* another left out of every room.
C3_Witness ==
    /\ Reported
    /\ inst.num_salas = 2
    /\ Assigned # {}
    /\ Items(inst) \ Assigned # {}

\* C4: Scenario A under the mapped policy: references 1 and 2 go to rooms 0
\* and 1, no assignment satisfying the constraints is worth more than 24, and
\* the optimum reported is 24 with items 0 and 1 in room 0 and item 2 in room 1.
C4_ScenarioA ==
    (policy = "mapped" /\ batch = <<ScenarioA>> /\ Reported) =>
        /\ referencia_sala = <<{1}, {2}>>
        /\ \A sol \in Feasible(policy, inst, referencia_sala) :
              ObjectiveValue(inst, sol) <= 24
        /\ report.valor_total = 24
        /\ Listed(0) = {0, 1}
        /\ Listed(1) = {2}

\* C4 witness: the report of Scenario A under the mapped policy.
C4_Witness == policy = "mapped" /\ batch = <<ScenarioA>> /\ Reported

\* C5: the total value of a reported Assignment is the sum of the values of
\* the items listed, and the sum of the rooms' value subtotals.
C5_Objective ==
    Reported =>
        /\ report.valor_total = SumOver(Assigned, inst.valores)
        /\ report.valor_total =
              SumOver(Bins(inst), [b \in 1 .. Len(report.salas) |->
                                      report.salas[b].valor_na_sala])

\* C5 witness: a reported Assignment with items of different values listed
\* under two rooms.
C5_Witness ==
    /\ Reported
    /\ \E b, c \in Bins(inst) :
          /\ b # c
          /\ \E i \in Listed(b) : \E j \in Listed(c) :
                inst.valores[i + 1] # inst.valores[j + 1]

\* C6: the "not allocated" figure of the final summary is the number of items
\* listed under no room, whatever the non-negative weights of a well-formed
\* instance, and is never negative.
C6_UnassignedCount ==
    (/\ policy = "direct"
     /\ Reported
     /\ inst.num_alunos = Len(inst.pesos)
     /\ \A i \in Items(inst) : inst.pesos[i + 1] >= 0) =>
        /\ report.resumo[2] = inst.num_alunos - Cardinality(Assigned)
        /\ report.resumo[2] >= 0

\* the statuses of the solver other than OPTIMAL that end a solve
NonOptimal == {"INFEASIBLE", "UNBOUNDED", "ABNORMAL"}

NoOptimalReport ==
    /\ report.mensagem = "O problema nao tem uma solucao otima."
    /\ report.salas = <<>>
    /\ report.resumo = <<>>

\* C7 as stated: on a non-optimal result the report shows no allocation, says
\* that there is no optimal solution, and its text tells which non-optimal
\* result occurred (another non-optimal result would have read differently).
C7_PreservesResult ==
    (report.written /\ status \in NonOptimal) =>
        /\ NoOptimalReport
        /\ \A s \in NonOptimal \ {status} :
              Render(policy, inst, referencia_sala, s, x, objective) # report

\* C7 amended: on a non-optimal result the report shows no allocation and
\* says that there is no optimal solution, in the same words whichever
\* non-optimal result occurred.
C7_NoAllocation ==
    (report.written /\ status \in NonOptimal) =>
        /\ NoOptimalReport
        /\ \A s \in NonOptimal :
              Render(policy, inst, referencia_sala, s, x, objective) = report

\* C7 witness: the report of an infeasible instance with rooms and items.
C7_Witness ==
    /\ report.written
    /\ status = "INFEASIBLE"
    /\ inst.num_salas > 0
    /\ inst.num_alunos > 0

\* what main() leaves behind for file k of the directory: its own run of the
\* pipeline from "resolvendo" to "finalizada", with the error printed and no
\* report when the file does not load, and the report (or the missing solver)
\* when it does
Processed(k) ==
    LET r == Load(policy, batch[k]) IN
    IF ~r.ok
    THEN /\ log[k] = <<"resolvendo", ExceptMsg(policy, r.err), "finalizada">>
         /\ ~saida[k].written
    ELSE \/ /\ log[k] = <<"resolvendo", "finalizada">>
            /\ saida[k].written
         \/ /\ log[k] = <<"resolvendo", "sem solver", "finalizada">>
            /\ ~saida[k].written

BatchDone ==
    /\ pc = "done"
    /\ \A k \in 1 .. Len(batch) : batch[k].txt => Processed(k)

\* C8: run over a directory of instance files (problema_demanda_reprimida's
\* main), a missing or malformed file is reported and skipped, the program
\* never crashes, and every instance file is eventually processed by its own
\* run of the pipeline.
C8_BatchIsolation ==
    /\ [](policy = "direct" => pc # "crashed")
    /\ (policy = "direct") ~> BatchDone

\* C8 witness: a directory of two files is done, the first one missing or
\* malformed, the second one reported.
C8_Witness ==
    /\ policy = "direct"
    /\ pc = "done"
    /\ Len(batch) = 2
    /\ batch[1].txt
    /\ ~Load(policy, batch[1]).ok
    /\ saida[2].written

\* C9: whatever the file, the loader fails or returns an instance with as
\* many capacities as rooms declared and as many weights, values and
\* references as items declared.
C9_LoaderInvariant ==
    inst.ok =>
        /\ Len(inst.capacidades) = inst.num_salas
        /\ Len(inst.pesos) = inst.num_alunos
        /\ Len(inst.valores) = inst.num_alunos
        /\ Len(inst.referencias) = inst.num_alunos

\* the mapping of the current instance is computed
MappingDone == policy = "mapped" /\ inst.ok /\ pc \notin {"load", "map"}

\* the distinct references of the items
DistinctRefs == {inst.referencias[k] : k \in 1 .. Len(inst.referencias)}

\* the reference with exactly k smaller distinct references
KthSmallest(k) == {r \in DistinctRefs : Cardinality({q \in DistinctRefs : q < r}) = k}

\* C10: under the mapped policy room k holds the k-th smallest distinct
\* reference for k < min(distinct references, rooms) and every other room is
\* unmapped; so a reference resolves to at most one room, an unmapped room
\* receives no item, and with fewer distinct references than rooms the
\* warning is printed and the run goes on to build and solve the model.
C10_ReferenceMapping ==
    MappingDone =>
        /\ Len(referencia_sala) = Cardinality(Bins(inst))
        /\ \A k \in Bins(inst) :
              referencia_sala[k + 1] =
                  IF k < Min(Cardinality(DistinctRefs), inst.num_salas)
                  THEN KthSmallest(k) ELSE {}
        /\ \A r \in DistinctRefs :
              Cardinality({b \in Bins(inst) : referencia_sala[b + 1] = {r}}) <= 1
        /\ \A v \in x : referencia_sala[v[2] + 1] # {}
        /\ Reported => \A b \in Bins(inst) : referencia_sala[b + 1] = {} => Listed(b) = {}
        /\ Cardinality(DistinctRefs) < inst.num_salas =>
              /\ warned
              /\ pc # "crashed"
              /\ (pc = "done" /\ log[idx] = <<>>) => (report.written /\ status # "NOT_SOLVED")

\* C10 witness: two rooms, one distinct reference: the warning is printed, the
\* second room is unmapped and the report lists an item under the first.
C10_Witness ==
    /\ MappingDone
    /\ Reported
    /\ inst.num_salas = 2
    /\ Cardinality(DistinctRefs) = 1
    /\ warned
    /\ Listed(0) # {}

====
